---------------------------- MODULE Spec2Model ----------------------------
(***************************************************************************)
(* A model of the Assembunny-plus toolchain: the line parser (parser.rs),  *)
(* the bytecode codec (bytecode.rs) and their callers (loader.rs, main.rs).*)
(*                                                                         *)
(* Text is modelled character by character: a word and a line are          *)
(* sequences of one-character strings, so that splitting, lower-casing and *)
(* integer parsing are computed as the code computes them.  Integers are   *)
(* Rust's i32; every intermediate value below stays inside the 32-bit      *)
(* signed range.                                                           *)
(***************************************************************************)
EXTENDS Integers, Sequences, FiniteSets, TLC

VARIABLES
    src,     \* the source lines submitted so far, in order
    regs,    \* the register table (`regs` / `existing_regs`)
    ftoks,   \* the instructions returned so far (`ftoks` of run_file)
    line,    \* the line of the last to_tokens call
    regs0,   \* the register table before the last to_tokens call
    lv,      \* the result of line_valid in the last to_tokens call
    res,     \* the result of the last to_tokens call
    enc,     \* the result of to_bytecode
    image,   \* the byte vector handed to from_bytecode
    dec,     \* the result of from_bytecode
    pc,      \* the position of the caller
    build,   \* the build of the program: overflow checks on or off
    state,   \* the AsmbiState: the register vector and the pointer
    pre,     \* the AsmbiState before the last instruction executed
    mid,     \* the pointer when execute returned, before the loop's ip += 1
    stdout,  \* the characters printed so far, as code points
    emitted, \* the characters printed by the last instruction executed
    status,  \* Idle, Running, Halted (Ok returned), Failed (Err) or Aborted (panic)
    fail,    \* the position and the message of the Err returned
    line_count, \* the number of instructions executed
    trace,   \* the (pointer, store, output) states the run has gone through
    brun     \* the outcome of run_bytecode on the image of the same lines

cvars == <<src, regs, ftoks, line, regs0, lv, res, enc, image, dec, pc>>
rvars == <<build, state, pre, mid, stdout, emitted, status, fail, line_count, trace, brun>>
vars == <<cvars, rvars>>

----------------------------------------------------------------------------
(* Bounds of the model *)

\* the number of source lines of one compilation
MaxLines == 3

----------------------------------------------------------------------------
(* Characters *)

I32_MAX == 2147483647
I32_MIN == (-I32_MAX) - 1

UpperChars == <<"A","B","C","D","E","F","G","H","I","J","K","L","M",
                "N","O","P","Q","R","S","T","U","V","W","X","Y","Z">>
LowerChars == <<"a","b","c","d","e","f","g","h","i","j","k","l","m",
                "n","o","p","q","r","s","t","u","v","w","x","y","z">>
DigitChars == <<"0","1","2","3","4","5","6","7","8","9">>

Range(s) == { s[i] : i \in 1..Len(s) }

IsDigit(c) == c \in Range(DigitChars)
IsLetter(c) == c \in Range(UpperChars) \cup Range(LowerChars)
IsWhitespace(c) == c \in {" ", "\t"}

DigitVal(c) == (CHOOSE i \in 1..10 : DigitChars[i] = c) - 1

\* char::to_lowercase on the ASCII range
LowerChar(c) ==
    IF c \in Range(UpperChars)
    THEN LowerChars[CHOOSE i \in 1..26 : UpperChars[i] = c]
    ELSE c

\* str::to_lowercase
to_lowercase(w) == [i \in 1..Len(w) |-> LowerChar(w[i])]

\* str::starts_with
starts_with(w, p) == Len(w) >= Len(p) /\ SubSeq(w, 1, Len(p)) = p

----------------------------------------------------------------------------
(* parser.rs *)

COMMENT_PREFIXES == <<"#", "/", ":", ";", "\"", "'">>

KEYWORD_INDEX ==
    << <<"d","e","f">>, <<"i","n","c">>, <<"i","n","c","t">>, <<"d","e","c">>,
       <<"d","e","c","t">>, <<"m","u","l">>, <<"d","i","v">>, <<"c","p","y">>,
       <<"j","n","z">>, <<"o","u","t">>, <<"o","u","t","n">>, <<"o","u","t","c">> >>

\* the KEYWORDS map of line_valid: keyword -> parameter rule
KEYWORDS ==
    << <<"R","B">>, <<"R">>, <<"R","B">>, <<"R">>, <<"R","B">>, <<"R","B">>,
       <<"R","B">>, <<"B","R">>, <<"B","L">>, <<"B">>, <<"B">>, <<"B">> >>

\* index_of returning the last position of item
index_of_last(slice, item) ==
    IF \E i \in 1..Len(slice) : slice[i] = item
    THEN (CHOOSE i \in 1..Len(slice) :
            slice[i] = item /\ \A j \in (i+1)..Len(slice) : slice[j] # item) - 1
    ELSE -1

\* index_of: the first position of item in slice, 0-based; -1 stands for None
index_of(slice, item) ==
    IF \E i \in 1..Len(slice) : slice[i] = item
    THEN (CHOOSE i \in 1..Len(slice) :
            slice[i] = item /\ \A j \in 1..(i-1) : slice[j] # item) - 1
    ELSE -1

\* tokenize_line: str::split_whitespace
RECURSIVE split_whitespace(_, _, _)
split_whitespace(l, cur, out) ==
    IF l = <<>>
    THEN IF cur = <<>> THEN out ELSE Append(out, cur)
    ELSE IF IsWhitespace(Head(l))
         THEN split_whitespace(Tail(l), <<>>,
                               IF cur = <<>> THEN out ELSE Append(out, cur))
         ELSE split_whitespace(Tail(l), Append(cur, Head(l)), out)

tokenize_line(l) == split_whitespace(l, <<>>, <<>>)

\* a Result without payload
OkUnit == [kind |-> "Ok", err |-> ""]
ErrUnit(e) == [kind |-> "Err", err |-> e]

\* regname_valid; name[0..1] of an empty name is a slice panic
regname_valid(name) ==
    IF \E i \in 1..Len(name) : ~(IsDigit(name[i]) \/ IsLetter(name[i]) \/ name[i] = "_")
    THEN ErrUnit("Forbidden characters in register name")
    ELSE IF Len(name) = 0
    THEN [kind |-> "panic", err |-> ""]
    ELSE IF IsDigit(name[1])
    THEN ErrUnit("Register name should not start with a digit")
    ELSE IF starts_with(name, <<"_", "_">>)
    THEN ErrUnit("Register name should not start with two underscores")
    ELSE OkUnit

\* i32::from_str: the digits after the sign, with checked multiply and add
RECURSIVE parse_digits(_, _, _)
parse_digits(ds, neg, acc) ==
    IF ds = <<>> THEN [ok |-> TRUE, val |-> acc]
    ELSE IF ~IsDigit(Head(ds)) THEN [ok |-> FALSE, val |-> 0]
    ELSE LET d == DigitVal(Head(ds)) IN
         IF neg
         THEN IF acc < I32_MIN \div 10 + 1
                 \/ (acc = I32_MIN \div 10 + 1 /\ d > 8)
              THEN [ok |-> FALSE, val |-> 0]
              ELSE parse_digits(Tail(ds), neg, acc * 10 - d)
         ELSE IF acc > I32_MAX \div 10
                 \/ (acc = I32_MAX \div 10 /\ d > 7)
              THEN [ok |-> FALSE, val |-> 0]
              ELSE parse_digits(Tail(ds), neg, acc * 10 + d)

\* is_literal: tok.parse::<i32>()
is_literal(tok) ==
    IF tok = <<>> THEN [ok |-> FALSE, val |-> 0]
    ELSE IF Head(tok) \in {"+", "-"}
    THEN IF Tail(tok) = <<>> THEN [ok |-> FALSE, val |-> 0]
         ELSE parse_digits(Tail(tok), Head(tok) = "-", 0)
    ELSE parse_digits(tok, FALSE, 0)

\* check 3 without the test of the L rule
param_mismatch_noL(toks, param_rule) ==
    \E index \in 1..Len(param_rule) :
        is_literal(toks[index + 1]).ok /\ param_rule[index] = "R"

\* line_valid: check 3, the first parameter that breaks its rule
param_mismatch(toks, param_rule) ==
    \E index \in 1..Len(param_rule) :
        LET is_litparam == is_literal(toks[index + 1]).ok
            rule == param_rule[index]
        IN  (is_litparam /\ rule = "R") \/ (~is_litparam /\ rule = "L")

\* line_valid; the errors are named after the message each one formats:
\* "Unknown keyword", "Expected {} parameter(s), received {}",
\* "Parameter '{}' does not comply with the parameter rules"
line_valid(toks) ==
    IF Len(toks) = 0 THEN OkUnit
    ELSE IF \/ starts_with(toks[1], <<"/">>)
            \/ starts_with(toks[1], <<"#">>)
            \/ starts_with(toks[1], <<":">>)
    THEN OkUnit
    ELSE LET kw == to_lowercase(toks[1])
             k == index_of(KEYWORD_INDEX, kw)
         IN  IF k = -1 THEN ErrUnit("UnknownKeyword")
             ELSE IF Len(KEYWORDS[k + 1]) # Len(toks) - 1
             THEN ErrUnit("ArityMismatch")
             ELSE IF param_mismatch(toks, KEYWORDS[k + 1])
             THEN ErrUnit("ParameterKindMismatch")
             ELSE OkUnit

\* worth_execution
worth_execution(toks) ==
    IF toks = <<>> THEN ErrUnit("Line is empty")
    ELSE IF toks[1][1] \in Range(COMMENT_PREFIXES)
    THEN ErrUnit("Line is a comment")
    ELSE OkUnit

\* Token::new
Token(type_, val) == [type_ |-> type_, val |-> val]

\* the results of to_tokens
TokErr(e) == [kind |-> "Err", err |-> e, toks |-> <<>>]
TokNone == [kind |-> "None", err |-> "", toks |-> <<>>]
TokSome(t) == [kind |-> "Some", err |-> "", toks |-> t]

\* the loop over the parameters without the test that the register is known
RECURSIVE resolve_params_unchecked(_, _, _, _)
resolve_params_unchecked(str_toks, index, existing_regs, output) ==
    IF index > Len(str_toks) THEN TokSome(output)
    ELSE LET lit == is_literal(str_toks[index]) IN
         resolve_params_unchecked(str_toks, index + 1, existing_regs,
             Append(output,
                    IF lit.ok THEN Token("LITERAL", lit.val)
                    ELSE Token("REGISTER", index_of(existing_regs, str_toks[index]))))

\* to_tokens: the loop over the parameters
RECURSIVE resolve_params(_, _, _, _)
resolve_params(str_toks, index, existing_regs, output) ==
    IF index > Len(str_toks) THEN TokSome(output)
    ELSE LET lit == is_literal(str_toks[index]) IN
         IF lit.ok
         THEN resolve_params(str_toks, index + 1, existing_regs,
                             Append(output, Token("LITERAL", lit.val)))
         ELSE IF index_of(existing_regs, str_toks[index]) = -1
         THEN TokErr("UnknownRegister")
         ELSE resolve_params(str_toks, index + 1, existing_regs,
                  Append(output, Token("REGISTER",
                                       index_of(existing_regs, str_toks[index]))))

\* the `def` push of to_tokens
push_def(str_toks, existing_regs) ==
    IF to_lowercase(str_toks[1]) = KEYWORD_INDEX[1]
    THEN Append(existing_regs, str_toks[2])
    ELSE existing_regs

\* to_tokens with the keyword looked up as it is written
to_tokens_nolower(l, existing_regs) ==
    LET str_toks == tokenize_line(l)
        valid == line_valid(str_toks)
    IN  IF valid.kind = "Err"
        THEN [res |-> TokErr(valid.err), regs |-> existing_regs, lv |-> valid]
        ELSE IF worth_execution(str_toks).kind = "Err"
        THEN [res |-> TokNone, regs |-> existing_regs, lv |-> valid]
        ELSE LET regs1 == push_def(str_toks, existing_regs)
                 kw == Token("KEYWORD", index_of(KEYWORD_INDEX, str_toks[1]))
             IN  [res |-> resolve_params(str_toks, 2, regs1, <<kw>>),
                  regs |-> regs1, lv |-> valid]

\* to_tokens: the result, the register table it leaves, and line_valid's verdict
to_tokens(l, existing_regs) ==
    LET str_toks == tokenize_line(l)
        valid == line_valid(str_toks)
    IN  IF valid.kind = "Err"
        THEN [res |-> TokErr(valid.err), regs |-> existing_regs, lv |-> valid]
        ELSE IF worth_execution(str_toks).kind = "Err"
        THEN [res |-> TokNone, regs |-> existing_regs, lv |-> valid]
        ELSE LET regs1 == push_def(str_toks, existing_regs)
                 kw == Token("KEYWORD",
                             index_of(KEYWORD_INDEX, to_lowercase(str_toks[1])))
             IN  [res |-> resolve_params(str_toks, 2, regs1, <<kw>>),
                  regs |-> regs1, lv |-> valid]

\* TokenType as i32 as u8
TokenTypeTag(type_) ==
    CASE type_ = "KEYWORD" -> 0
      [] type_ = "REGISTER" -> 1
      [] type_ = "LITERAL" -> 2

\* the big-endian bytes of n, 0 <= n <= I32_MAX
be_bytes(n) ==
    << n \div 16777216, (n \div 65536) % 256, (n \div 256) % 256, n % 256 >>

\* write_i32 with the bytes in little-endian order
write_i32_le(v) ==
    IF v >= 0
    THEN << be_bytes(v)[4], be_bytes(v)[3], be_bytes(v)[2], be_bytes(v)[1] >>
    ELSE LET b == be_bytes((v + I32_MAX) + 1)
         IN  << b[4], b[3], b[2], b[1] + 128 >>

\* write_i32::<BigEndian>: two's complement, v + 2^32 for a negative v
write_i32(v) ==
    IF v >= 0 THEN be_bytes(v)
    ELSE LET b == be_bytes((v + I32_MAX) + 1)
         IN  << b[1] + 128, b[2], b[3], b[4] >>

\* write_u32::<BigEndian>(regs.len() as u32)
write_u32(n) == be_bytes(n)

\* Token::to_bytearray
to_bytearray(tok) == <<TokenTypeTag(tok.type_)>> \o write_i32(tok.val)

----------------------------------------------------------------------------
(* bytecode.rs *)

\* the length of the metadata segment
HEADER_LEN == 32
\* the length of the register count in the metadata segment
COUNT_LEN == 4
\* the length of one token blob
BLOB_LEN == 5

Zeros(n) == [i \in 1..n |-> 0]

RECURSIVE tokens_bytes(_)
tokens_bytes(tokens) ==
    IF tokens = <<>> THEN <<>>
    ELSE to_bytearray(Head(tokens)) \o tokens_bytes(Tail(tokens))

BytesOk(b) == [kind |-> "Ok", err |-> "", bytes |-> b]
BytesErr(e) == [kind |-> "Err", err |-> e, bytes |-> <<>>]
BytesNone == [kind |-> "None", err |-> "", bytes |-> <<>>]

\* to_bytecode: the loop over the lines, then the metadata segment
RECURSIVE to_bytecode_loop(_, _, _, _)
to_bytecode_loop(asmbp, i, table, segment2) ==
    IF i > Len(asmbp)
    THEN LET segment1 == write_u32(Len(table)) \o Zeros(HEADER_LEN - COUNT_LEN)
         IN  BytesOk(segment1 \o segment2)
    ELSE LET r == to_tokens(asmbp[i], table) IN
         IF r.res.kind = "Err" THEN BytesErr(r.res.err)
         ELSE to_bytecode_loop(asmbp, i + 1, r.regs,
                               segment2 \o tokens_bytes(r.res.toks))

to_bytecode(asmbp) == to_bytecode_loop(asmbp, 1, <<>>, <<>>)

\* the results of Token::from_bytearray and of from_bytecode
Panic == [kind |-> "panic", err |-> "", reg_count |-> 0, toks |-> <<>>]
DecErr(e) == [kind |-> "Err", err |-> e, reg_count |-> 0, toks |-> <<>>]
DecOk(n, t) == [kind |-> "Ok", err |-> "", reg_count |-> n, toks |-> t]
DecNone == [kind |-> "None", err |-> "", reg_count |-> 0, toks |-> <<>>]

\* Token::from_bytearray: unimplemented!()
from_bytearray(barray) == [kind |-> "panic", err |-> "", tok |-> Token("KEYWORD", 0)]

\* read_u32::<BigEndian>, for a value up to I32_MAX
read_u32(b) == b[1] * 16777216 + b[2] * 65536 + b[3] * 256 + b[4]

\* slice::chunks
chunks(s, n) ==
    [i \in 1..((Len(s) + n - 1) \div n) |->
        SubSeq(s, (i - 1) * n + 1, IF i * n < Len(s) THEN i * n ELSE Len(s))]

\* from_bytecode: the loop over the chunks of segment 2
RECURSIVE from_bytecode_loop(_, _, _, _)
from_bytecode_loop(segment2, index, toks, reg_count) ==
    IF index > Len(segment2) THEN DecOk(reg_count, toks)
    ELSE LET token == from_bytearray(segment2[index]) IN
         IF token.kind = "panic" THEN Panic
         ELSE IF token.kind = "Err"
         THEN DecErr("Failed to convert from bytes to Token")
         ELSE IF token.tok.type_ = "KEYWORD"
         THEN from_bytecode_loop(segment2, index + 1,
                                 Append(toks, <<token.tok>>), reg_count)
         ELSE IF toks = <<>>
         THEN DecErr("First token is not of type KEYWORD")
         ELSE from_bytecode_loop(segment2, index + 1,
                  [toks EXCEPT ![Len(toks)] = Append(@, token.tok)], reg_count)

\* from_bytecode; bytecode[0..4] and bytecode[32..] panic on a shorter vector
from_bytecode(bytecode) ==
    IF Len(bytecode) < COUNT_LEN THEN Panic
    ELSE LET reg_count == read_u32(SubSeq(bytecode, 1, COUNT_LEN)) IN
         IF Len(bytecode) < HEADER_LEN THEN Panic
         ELSE from_bytecode_loop(
                  chunks(SubSeq(bytecode, HEADER_LEN + 1, Len(bytecode)), BLOB_LEN),
                  1, <<>>, reg_count)

----------------------------------------------------------------------------
(* interpret.rs *)

\* The builds of the program: rustc's overflow checks are on in a debug
\* build (an overflowing + - * panics) and off in a release build (it wraps).
Builds == {"debug", "release"}

\* a + b on i32: whether it overflows, and the wrapped result
Add32(a, b) ==
    IF b > 0 /\ a > I32_MAX - b
    THEN [ovf |-> TRUE, val |-> I32_MIN + ((b - (I32_MAX - a)) - 1)]
    ELSE IF b < 0 /\ a < I32_MIN - b
    THEN [ovf |-> TRUE, val |-> I32_MAX - ((I32_MIN - b) - (a + 1))]
    ELSE [ovf |-> FALSE, val |-> a + b]

\* a - b on i32
Sub32(a, b) ==
    IF b = I32_MIN
    THEN IF a >= 0 THEN [ovf |-> TRUE, val |-> a + I32_MIN]
         ELSE [ovf |-> FALSE, val |-> (a + I32_MAX) + 1]
    ELSE Add32(a, -b)

\* a / b on i32 for b # 0 and (a, b) # (i32::MIN, -1): the quotient is
\* truncated toward zero
TruncDiv(a, b) ==
    IF b = I32_MIN THEN (IF a = I32_MIN THEN 1 ELSE 0)
    ELSE LET d == IF b < 0 THEN -b ELSE b
             q == a \div d
             t == IF a < 0 /\ a % d # 0 THEN q + 1 ELSE q
         IN  IF b < 0 THEN -t ELSE t

\* the low 32 bits of a * b
RECURSIVE mul_wrap(_, _)
mul_wrap(a, b) ==
    IF b = 0 THEN 0
    ELSE IF b = I32_MIN THEN (IF a % 2 = 1 THEN I32_MIN ELSE 0)
    ELSE IF b < 0 THEN Sub32(0, mul_wrap(a, -b)).val
    ELSE LET h == mul_wrap(Add32(a, a).val, b \div 2)
         IN  IF b % 2 = 1 THEN Add32(h, a).val ELSE h

\* a * b on i32
Mul32(a, b) ==
    LET r == mul_wrap(a, b)
        exact == \/ a = 0
                 \/ b = 0
                 \/ /\ b = -1
                    /\ a # I32_MIN
                 \/ /\ b # -1
                    /\ b # 0
                    /\ TruncDiv(r, b) = a
                    /\ (IF b = I32_MIN THEN r = I32_MIN
                        ELSE r % (IF b < 0 THEN -b ELSE b) = 0)
    IN  [ovf |-> ~exact, val |-> r]

\* the value of an arithmetic expression under a build: a panic on overflow
\* with overflow checks, the wrapped value without
Arith(build_, x) ==
    IF x.ovf /\ build_ = "debug" THEN [ok |-> FALSE, val |-> 0]
    ELSE [ok |-> TRUE, val |-> x.val]

\* AsmbiState
AsmbiState(vec, ip_) == [regs |-> vec, ip |-> ip_]

\* RegisterMap::new and new_state
new_state(capacity) == AsmbiState([i \in 1..capacity |-> 0], 0)

\* `tok.val as usize` is a valid index of the register vector
InStore(vec, index) == index >= 0 /\ index < Len(vec)

\* RegisterMap::parse_token: the value, or a panic (unwrap of None, or a
\* keyword token)
parse_token(vec, tok) ==
    IF tok.type_ = "LITERAL" THEN [ok |-> TRUE, val |-> tok.val]
    ELSE IF tok.type_ = "REGISTER" /\ InStore(vec, tok.val)
    THEN [ok |-> TRUE, val |-> vec[tok.val + 1]]
    ELSE [ok |-> FALSE, val |-> 0]

\* the results of a handler: Ok, Err or a panic, the state it leaves and
\* the characters it printed (as code points)
ExecOk(st, printed) == [kind |-> "Ok", err |-> "", state |-> st, printed |-> printed]
\* an Err returned with the pointer moved on
ExecErr_moved(st, e) ==
    [kind |-> "Err", err |-> e, state |-> [st EXCEPT !.ip = st.ip + 1], printed |-> <<>>]

ExecErr(st, e) == [kind |-> "Err", err |-> e, state |-> st, printed |-> <<>>]
ExecPanic(st) == [kind |-> "panic", err |-> "", state |-> st, printed |-> <<>>]

\* RegisterMap::set / index_set under try_set!
try_set(st, regtok, newval) ==
    IF ~InStore(st.regs, regtok.val)
    THEN ExecErr(st, "Failed to set register value")
    ELSE ExecOk([st EXCEPT !.regs[regtok.val + 1] = newval], <<>>)

\* RegisterMap::modify / index_modify under try_set!; `modified` is the
\* modifier applied to the current value ([ok, val], ok = FALSE for a panic)
try_modify(st, regtok, modified) ==
    IF ~InStore(st.regs, regtok.val)
    THEN ExecErr(st, "Failed to set register value")
    ELSE IF ~modified.ok THEN ExecPanic(st)
    ELSE ExecOk([st EXCEPT !.regs[regtok.val + 1] = modified.val], <<>>)

\* the current value of the register a modifier is applied to (0 when the
\* register is out of range and the modifier is not called)
Cur(st, regtok) ==
    IF InStore(st.regs, regtok.val) THEN st.regs[regtok.val + 1] ELSE 0

\* the code points of the characters the handlers print
CodeOf(c) ==
    CASE c = " " -> 32
      [] c = "\n" -> 10
      [] c = "-" -> 45
      [] OTHER -> 48 + DigitVal(c)

\* the decimal digits of n <= 0, most significant first
RECURSIVE neg_digits(_)
neg_digits(n) ==
    LET q == TruncDiv(n, 10)
        d == DigitChars[(q * 10 - n) + 1]
    IN  IF q = 0 THEN <<d>> ELSE Append(neg_digits(q), d)

\* Display for i32: the characters of format!("{}", v)
int_chars(v) ==
    IF v < 0 THEN <<"-">> \o neg_digits(v) ELSE neg_digits(-v)

\* the code points of a character sequence
Codes(cs) == [i \in 1..Len(cs) |-> CodeOf(cs[i])]

\* char::from_u32 without the surrogate range
from_u32_some_nosurr(v) == v <= 1114111

\* char::from_u32 returns Some: a code point outside the surrogate range
\* and not above 0x10FFFF
from_u32_some(v) == v <= 1114111 /\ ~(v >= 55296 /\ v <= 57343)

\* the handlers of mod exec; toks is 1-based here, toks[1] is the keyword
exec_def(st, toks, build_) ==
    LET newval == parse_token(st.regs, toks[3]) IN
    IF ~newval.ok THEN ExecPanic(st)
    ELSE try_set(st, toks[2], newval.val)

exec_inc(st, toks, build_) ==
    try_modify(st, toks[2], Arith(build_, Add32(Cur(st, toks[2]), 1)))

exec_inct(st, toks, build_) ==
    LET adder == parse_token(st.regs, toks[3]) IN
    IF ~adder.ok THEN ExecPanic(st)
    ELSE try_modify(st, toks[2],
                    Arith(build_, Add32(Cur(st, toks[2]), adder.val)))

exec_dec(st, toks, build_) ==
    try_modify(st, toks[2], Arith(build_, Sub32(Cur(st, toks[2]), 1)))

\* exec::dect with the operands of the subtraction exchanged
exec_dect_swapped(st, toks, build_) ==
    LET subtractor == parse_token(st.regs, toks[3]) IN
    IF ~subtractor.ok THEN ExecPanic(st)
    ELSE try_modify(st, toks[2],
                    Arith(build_, Sub32(subtractor.val, Cur(st, toks[2]))))

exec_dect(st, toks, build_) ==
    LET subtractor == parse_token(st.regs, toks[3]) IN
    IF ~subtractor.ok THEN ExecPanic(st)
    ELSE try_modify(st, toks[2],
                    Arith(build_, Sub32(Cur(st, toks[2]), subtractor.val)))

exec_mul(st, toks, build_) ==
    LET multiplier == parse_token(st.regs, toks[3]) IN
    IF ~multiplier.ok THEN ExecPanic(st)
    ELSE try_modify(st, toks[2],
                    Arith(build_, Mul32(Cur(st, toks[2]), multiplier.val)))

\* v / quotient: a division by zero and i32::MIN / -1 panic in every build
div_i32(v, quotient) ==
    IF quotient = 0 \/ (v = I32_MIN /\ quotient = -1)
    THEN [ok |-> FALSE, val |-> 0]
    ELSE [ok |-> TRUE, val |-> TruncDiv(v, quotient)]

exec_div(st, toks, build_) ==
    LET quotient == parse_token(st.regs, toks[3]) IN
    IF ~quotient.ok THEN ExecPanic(st)
    ELSE try_modify(st, toks[2], div_i32(Cur(st, toks[2]), quotient.val))

exec_cpy(st, toks, build_) ==
    LET newval == parse_token(st.regs, toks[2]) IN
    IF ~newval.ok THEN ExecPanic(st)
    ELSE try_set(st, toks[3], newval.val)

\* state.ip -= (-diff) as u32 and state.ip += diff as u32.  The u32 pointer
\* is held as its two's-complement reading: a negative ip stands for
\* ip + 2^32, so that a wrapped pointer stays in TLC's integer range.
jnz_ip(ip_, diff, build_) ==
    IF diff < 0
    THEN IF diff = I32_MIN
         THEN IF build_ = "debug" THEN [ok |-> FALSE, val |-> ip_]
              ELSE [ok |-> TRUE, val |-> Add32(ip_, I32_MIN).val]
         ELSE IF ip_ >= 0 /\ ip_ < -diff /\ build_ = "debug"
         THEN [ok |-> FALSE, val |-> ip_]
         ELSE [ok |-> TRUE, val |-> Sub32(ip_, -diff).val]
    ELSE IF ip_ < 0 /\ ip_ + diff >= 0 /\ build_ = "debug"
         THEN [ok |-> FALSE, val |-> ip_]
         ELSE [ok |-> TRUE, val |-> Add32(ip_, diff).val]

\* exec::jnz with the offset taken as the displacement itself
exec_jnz_nodec(st, toks, build_) ==
    LET cond == parse_token(st.regs, toks[2]) IN
    IF ~cond.ok THEN ExecPanic(st)
    ELSE IF cond.val = 0 THEN ExecOk(st, <<>>)
    ELSE IF Len(toks) < 3 THEN ExecPanic(st)
    ELSE LET offset == parse_token(st.regs, toks[3]) IN
         IF ~offset.ok THEN ExecPanic(st)
         ELSE LET newip == jnz_ip(st.ip, offset.val, build_) IN
              IF ~newip.ok THEN ExecPanic(st)
              ELSE ExecOk([st EXCEPT !.ip = newip.val], <<>>)

exec_jnz(st, toks, build_) ==
    LET cond == parse_token(st.regs, toks[2]) IN
    IF ~cond.ok THEN ExecPanic(st)
    ELSE IF cond.val = 0 THEN ExecOk(st, <<>>)
    ELSE IF Len(toks) < 3 THEN ExecPanic(st)
    ELSE LET offset == parse_token(st.regs, toks[3]) IN
         IF ~offset.ok THEN ExecPanic(st)
         ELSE LET diff == Arith(build_, Sub32(offset.val, 1)) IN
              IF ~diff.ok THEN ExecPanic(st)
              ELSE LET newip == jnz_ip(st.ip, diff.val, build_) IN
                   IF ~newip.ok THEN ExecPanic(st)
                   ELSE ExecOk([st EXCEPT !.ip = newip.val], <<>>)

exec_out(st, toks, build_) ==
    LET v == parse_token(st.regs, toks[2]) IN
    IF ~v.ok THEN ExecPanic(st)
    ELSE ExecOk(st, Codes(int_chars(v.val) \o <<" ">>))

exec_outn(st, toks, build_) ==
    LET v == parse_token(st.regs, toks[2]) IN
    IF ~v.ok THEN ExecPanic(st)
    ELSE ExecOk(st, Codes(int_chars(v.val) \o <<"\n">>))

exec_outc(st, toks, build_) ==
    LET v == parse_token(st.regs, toks[2]) IN
    IF ~v.ok THEN ExecPanic(st)
    ELSE IF v.val < 0
    THEN ExecErr(st, "Char code should not be less than zero")
    ELSE IF ~from_u32_some(v.val)
    THEN ExecErr(st, "Char code is invalid")
    ELSE ExecOk(st, <<v.val>>)

\* the number of tokens a handler always indexes (toks[1], toks[2] in the
\* source; jnz indexes toks[2] only when it jumps); indexing past the end of
\* toks panics
HandlerArity == <<2, 1, 2, 1, 2, 2, 2, 2, 1, 1, 1, 1>>

\* exec::INDEX dispatch
exec_index(k, st, toks, build_) ==
    CASE k = 0 -> exec_def(st, toks, build_)
      [] k = 1 -> exec_inc(st, toks, build_)
      [] k = 2 -> exec_inct(st, toks, build_)
      [] k = 3 -> exec_dec(st, toks, build_)
      [] k = 4 -> exec_dect(st, toks, build_)
      [] k = 5 -> exec_mul(st, toks, build_)
      [] k = 6 -> exec_div(st, toks, build_)
      [] k = 7 -> exec_cpy(st, toks, build_)
      [] k = 8 -> exec_jnz(st, toks, build_)
      [] k = 9 -> exec_out(st, toks, build_)
      [] k = 10 -> exec_outn(st, toks, build_)
      [] k = 11 -> exec_outc(st, toks, build_)

\* execute: the assert on the keyword token, then the dispatch
execute(st, toks, build_) ==
    IF toks = <<>> \/ toks[1].type_ # "KEYWORD" THEN ExecPanic(st)
    ELSE IF toks[1].val < 0 \/ toks[1].val >= Len(KEYWORD_INDEX) THEN ExecPanic(st)
    ELSE IF Len(toks) < 1 + HandlerArity[toks[1].val + 1] THEN ExecPanic(st)
    ELSE exec_index(toks[1].val, st, toks, build_)

----------------------------------------------------------------------------
(* The inputs of the model *)

\* the most parameter words of a generated line
MaxParams == 3

\* words joined by single spaces into a line
RECURSIVE Join(_)
Join(ws) ==
    IF ws = <<>> THEN <<>>
    ELSE IF Len(ws) = 1 THEN ws[1]
    ELSE ws[1] \o <<" ">> \o Join(Tail(ws))

kwDEF == KEYWORD_INDEX[1]
kwINC == KEYWORD_INDEX[2]
kwCPY == KEYWORD_INDEX[8]
kwOUTN == KEYWORD_INDEX[11]

nameA == <<"a">>
nameB == <<"b">>
nameC == <<"c">>
nameZZ == <<"z","z">>
nameUU == <<"_","_","x">>
nameBad == <<"a","-","b">>
lit0 == <<"0">>
lit1 == <<"1">>
lit5 == <<"5">>
lit7 == <<"7">>
litNeg2 == <<"-","2">>
litMin == <<"-","2","1","4","7","4","8","3","6","4","8">>
litOver == <<"2","1","4","7","4","8","3","6","4","8">>

\* the source lines of a compilation
SrcLines ==
    { Join(<<kwDEF, nameA, lit1>>),
      Join(<< <<"D","E","F">>, nameB, litNeg2>>),
      Join(<<kwDEF, nameA, lit0>>),
      Join(<<kwINC, nameA>>),
      Join(<<kwCPY, nameA, nameB>>),
      <<"\t">> \o kwOUTN \o <<" ", " ">> \o nameB \o <<" ">>,
      Join(<<kwDEF, nameC, litMin>>),
      <<>>,
      Join(<< <<"#">>, nameC>>),
      Join(<< <<";">>, nameC>>),
      Join(<<kwINC, lit5>>),
      Join(<<kwDEF, nameUU, lit7>>) }

\* the first words and the parameter words of the generated lines
FirstWords ==
    Range(KEYWORD_INDEX)
    \cup { <<"D","E","F">>, <<"J","n","Z">>, <<"f","o","o">> }
    \cup { <<COMMENT_PREFIXES[i]>> \o nameC : i \in 1..Len(COMMENT_PREFIXES) }

ParamWords == { nameA, nameUU, nameBad, lit1, litNeg2, litOver }

RECURSIVE WordSeqs(_)
WordSeqs(n) ==
    IF n = 0 THEN { <<>> }
    ELSE LET shorter == WordSeqs(n - 1)
         IN  shorter \cup { Append(ws, w) : ws \in { x \in shorter : Len(x) = n - 1 },
                                            w \in ParamWords }

\* every line made of a first word and up to MaxParams parameter words
AllLines == { Join(<<f>> \o ps) : f \in FirstWords, ps \in WordSeqs(MaxParams) }

\* the register tables a single line is resolved against
Tables == { <<>>, <<nameA>>, <<nameZZ, nameA>>, <<nameA, nameUU, nameA>> }

\* the byte vectors a bytecode file may hold: an image cut to a length,
\* with one byte overwritten, or with bytes left behind at its end
TemplateImage ==
    to_bytecode(<<Join(<<kwDEF, nameA, lit1>>), Join(<<kwINC, nameA>>)>>).bytes

FileImages ==
    { SubSeq(TemplateImage, 1, k) :
        k \in {0, 1, 3, 4, 5, 31, 32, 33, 36, 37, 42, 56, 57} }
    \cup { [TemplateImage EXCEPT ![HEADER_LEN + 1] = t] : t \in {1, 2, 3} }
    \cup { [SubSeq(TemplateImage, 1, HEADER_LEN) EXCEPT ![i] = 9] : i \in {4, 5, 32} }
    \cup { TemplateImage \o <<0>> }

\* the bound of the countdown programs, and the number of loop iterations
\* that lets the longest of the run files be executed to its end
MaxCount == 3
StepCap == 3 * MaxCount + 3

nameCtr == <<"c","t","r">>
kwINCT == KEYWORD_INDEX[3]
kwDEC == KEYWORD_INDEX[4]
kwDECT == KEYWORD_INDEX[5]
kwMUL == KEYWORD_INDEX[6]
kwDIV == KEYWORD_INDEX[7]
kwJNZ == KEYWORD_INDEX[9]
kwOUT == KEYWORD_INDEX[10]
kwOUTC == KEYWORD_INDEX[12]

\* a literal word
Lit(v) == int_chars(v)

\* source lines of one and of two parameters
L1(kw, a) == Join(<<kw, a>>)
L2(kw, a, b) == Join(<<kw, a, b>>)

Countdown(n) ==
    << L2(kwDEF, nameCtr, Lit(n)), L1(kwDEC, nameCtr),
       L1(kwOUTN, nameCtr), L2(kwJNZ, nameCtr, Lit(-2)) >>

DivOperands == { 52, 7, 0, -7, I32_MIN }
DivQuotients == { 5, 2, 0, -1, -2 }

DivFiles ==
    { << L2(kwDEF, nameA, Lit(x)), L2(kwDIV, nameA, Lit(q)), L1(kwOUTN, nameA) >> :
        x \in DivOperands, q \in DivQuotients }
    \cup
    { << L2(kwDEF, nameA, Lit(x)), L2(kwDEF, nameB, Lit(q)),
         L2(kwDIV, nameA, nameB), L1(kwOUT, nameA) >> :
        x \in {-7, 52}, q \in {0, 2} }

CharCodes == { -1, 0, 65, 55295, 55296, 57343, 57344, 1114111, 1114112 }

OutcFiles ==
    { << L1(kwOUTC, Lit(v)), L1(kwOUTN, lit1) >> : v \in CharCodes }
    \cup
    { << L2(kwDEF, nameA, Lit(v)), L1(kwOUTC, nameA), L1(kwOUTN, nameA) >> :
        v \in CharCodes }

JumpFiles ==
    { << L2(kwDEF, nameA, lit1), L2(kwJNZ, nameA, Lit(v)),
         L1(kwOUTN, lit7), L1(kwOUTN, nameA) >> :
        v \in { -3, -2, -1, 0, 1, 2, 3, 5, I32_MAX, I32_MIN } }
    \cup
    { << L2(kwJNZ, lit1, Lit(v)), L1(kwOUTN, lit5) >> :
        v \in { -1, 0, 1, 2, I32_MIN + 1 } }
    \cup
    { << L2(kwDEF, nameA, lit0), L2(kwJNZ, nameA, Lit(v)), L1(kwOUTN, nameA) >> :
        v \in { -5, -1, 0, 2 } }
    \cup
    { << L2(kwDEF, nameA, nameA), L1(kwINC, nameA), L2(kwDEF, nameB, nameA),
         L2(kwDECT, nameB, Lit(2)), L2(kwJNZ, nameB, Lit(-4)) >> }

IncFile ==
    << L2(kwDEF, nameA, lit0), L2(kwDEF, nameB, lit0), L2(kwINCT, nameB, nameA),
       L1(kwINC, nameA), L1(kwOUTN, nameA) >>

MulFile == << L2(kwDEF, nameA, lit5), L2(kwMUL, nameA, litNeg2), L1(kwOUTN, nameA) >>

HandlerFiles ==
    { IncFile,
      MulFile,
      << L2(kwDEF, nameA, Lit(3)), L2(kwDEF, nameB, nameA), L2(kwINCT, nameA, nameA),
         L2(kwDECT, nameB, lit7), L2(kwMUL, nameB, nameB), L2(kwMUL, nameA, nameB),
         L2(kwCPY, nameB, nameA), L2(kwCPY, litNeg2, nameB), L1(kwDEC, nameB),
         L1(kwOUT, nameA), L1(kwOUT, nameB) >>,
      << L2(kwDEF, nameA, lit7), L2(kwDEF, nameB, nameA), L2(kwDECT, nameA, nameA),
         L1(kwDEC, nameA), L2(kwINCT, nameB, Lit(-9)), L2(kwDIV, nameB, nameB),
         L1(kwOUT, nameB), L1(kwOUTC, nameB), L1(kwOUTN, nameA) >>,
      << L2(kwDEF, nameA, Lit(I32_MAX)), L1(kwINC, nameA), L1(kwOUTN, nameA) >>,
      << L2(kwDEF, nameA, litMin), L1(kwDEC, nameA), L1(kwOUTN, nameA) >>,
      << L2(kwDEF, nameA, litMin), L2(kwMUL, nameA, litNeg2), L1(kwOUTN, nameA) >>,
      << L2(kwDEF, nameA, lit1), L1(kwINC, nameZZ), L1(kwOUTN, nameA) >>,
      << L1(kwOUTN, lit1), L2(kwDEF, nameA, nameB) >>,
      << >> }

nameD == <<"d">>
cmdExit == <<":","e","x","i","t">>

\* the lines typed at the REPL prompt
ReplInputs ==
    { L2(kwDEF, nameA, lit1), L2(kwDEF, nameD, nameZZ), L1(kwOUT, nameD),
      L1(kwOUT, nameA), L1(kwINC, nameD), L2(kwCPY, lit1, nameD),
      L2(kwCPY, nameD, nameA), L2(kwINCT, nameA, nameD), L2(kwJNZ, lit1, lit1),
      <<" ">>, <<"#", " ", "c">>, cmdExit }

\* the files given to run_file
RunFiles ==
    { Countdown(n) : n \in 1..MaxCount } \cup DivFiles \cup OutcFiles
    \cup JumpFiles \cup HandlerFiles

----------------------------------------------------------------------------
(* The callers: loader.rs, main.rs *)

\* no program is being run
NoFail == [pos |-> 0, err |-> ""]

\* one state of a run: the pointer, the store and the output so far
Visited(st, out) == [ip |-> st.ip, regs |-> st.regs, out |-> out]

\* the outcome of a run of run_bytecode
Outcome(status_, st, count, fail_, tr) ==
    [status |-> status_, state |-> st, count |-> count, fail |-> fail_, trace |-> tr]
NoRun == Outcome("Idle", new_state(0), 0, NoFail, <<>>)

RunIdle ==
    /\ build = "release"
    /\ state = new_state(0)
    /\ pre = new_state(0)
    /\ mid = 0
    /\ stdout = <<>>
    /\ emitted = <<>>
    /\ status = "Idle"
    /\ fail = NoFail
    /\ line_count = 0
    /\ trace = <<>>
    /\ brun = NoRun

Init ==
    /\ src = <<>>
    /\ regs = <<>>
    /\ ftoks = <<>>
    /\ line = <<>>
    /\ regs0 = <<>>
    /\ lv = OkUnit
    /\ res = TokNone
    /\ enc = BytesNone
    /\ image = <<>>
    /\ dec = DecNone
    /\ pc = "compile"
    /\ RunIdle

\* one call parser::to_tokens(line, &mut regs), and the push of its tokens
CallToTokens(l) ==
    LET r == to_tokens(l, regs) IN
    /\ line' = l
    /\ regs0' = regs
    /\ lv' = r.lv
    /\ res' = r.res
    /\ regs' = r.regs
    /\ ftoks' = IF r.res.kind = "Some" THEN Append(ftoks, r.res.toks) ELSE ftoks
    /\ src' = Append(src, l)

\* the next line is handed to to_tokens on the shared table: an iteration of
\* the line loop of run_file and to_bytecode, or an input of the REPL.  The
\* REPL goes on after an Err; the file loops return it (to_bytecode below
\* reports the Err of the first failing line).
Compile ==
    /\ pc = "compile"
    /\ Len(src) < MaxLines
    /\ \E l \in SrcLines : CallToTokens(l)
    /\ UNCHANGED <<enc, image, dec, pc>>
    /\ UNCHANGED rvars

\* convert_to_bytecode: the lines submitted are converted to an image
ToBytecode ==
    /\ pc = "compile"
    /\ enc' = to_bytecode(src)
    /\ image' = enc'.bytes
    /\ pc' = IF enc'.kind = "Ok" THEN "image" ELSE "failed"
    /\ UNCHANGED <<src, regs, ftoks, line, regs0, lv, res, dec>>
    /\ UNCHANGED rvars

\* run_bytecode: file_to_bytevec reads whatever the file holds
ReadFile ==
    /\ pc = "compile"
    /\ src = <<>>
    /\ \E b \in FileImages : image' = b
    /\ pc' = "image"
    /\ UNCHANGED <<src, regs, ftoks, line, regs0, lv, res, enc, dec>>
    /\ UNCHANGED rvars

\* run_bytecode: the image is decoded
FromBytecode ==
    /\ pc = "image"
    /\ dec' = from_bytecode(image)
    /\ pc' = "decoded"
    /\ UNCHANGED <<src, regs, ftoks, line, regs0, lv, res, enc, image>>
    /\ UNCHANGED rvars

Next == Compile \/ ToBytecode \/ ReadFile \/ FromBytecode

Spec == Init /\ [][Next]_vars

\* One iteration of the line loop, against the table earlier def lines left
InitLine ==
    /\ src = <<>>
    /\ regs \in Tables
    /\ ftoks = <<>>
    /\ line = <<>>
    /\ regs0 = <<>>
    /\ lv = OkUnit
    /\ res = TokNone
    /\ enc = BytesNone
    /\ image = <<>>
    /\ dec = DecNone
    /\ pc = "compile"
    /\ RunIdle

Resolve ==
    /\ pc = "compile"
    /\ src = <<>>
    /\ \E l \in AllLines : CallToTokens(l)
    /\ pc' = "resolved"
    /\ UNCHANGED <<enc, image, dec>>
    /\ UNCHANGED rvars

NextLine == Resolve

SpecLine == InitLine /\ [][NextLine]_vars

\* run_file, the compile loop: every line goes through to_tokens with the
\* one table, and the first Err is returned
RECURSIVE compile_lines(_, _, _, _)
compile_lines(lines, i, table, toks) ==
    IF i > Len(lines) THEN [kind |-> "Ok", err |-> "", regs |-> table, toks |-> toks]
    ELSE LET r == to_tokens(lines[i], table) IN
         IF r.res.kind = "Err"
         THEN [kind |-> "Err", err |-> r.res.err, regs |-> r.regs, toks |-> toks]
         ELSE compile_lines(lines, i + 1, r.regs,
                            IF r.res.kind = "Some" THEN Append(toks, r.res.toks) ELSE toks)

\* index_option!: Some exactly when the index is below the length
index_some(vec, index) == index >= 0 /\ index < Len(vec)

InitRun ==
    /\ src \in RunFiles
    /\ regs = <<>>
    /\ ftoks = <<>>
    /\ line = <<>>
    /\ regs0 = <<>>
    /\ lv = OkUnit
    /\ res = TokNone
    /\ enc = BytesNone
    /\ image = <<>>
    /\ dec = DecNone
    /\ pc = "file"
    /\ build \in Builds
    /\ state = new_state(0)
    /\ pre = new_state(0)
    /\ mid = 0
    /\ stdout = <<>>
    /\ emitted = <<>>
    /\ status = "Idle"
    /\ fail = NoFail
    /\ line_count = 0
    /\ trace = <<>>
    /\ brun = NoRun

\* run_file up to the interpreter loop: the file is compiled and the state
\* is created with one zeroed register per table entry
LoadFile ==
    /\ pc = "file"
    /\ LET c == compile_lines(src, 1, <<>>, <<>>) IN
        /\ regs' = c.regs
        /\ ftoks' = c.toks
        /\ IF c.kind = "Err"
           THEN /\ pc' = "failed"
                /\ status' = "Rejected"
                /\ fail' = [pos |-> 0, err |-> c.err]
                /\ state' = state
           ELSE /\ pc' = "run"
                /\ status' = "Running"
                /\ fail' = fail
                /\ state' = new_state(Len(c.regs))
    /\ pre' = state'
    /\ trace' = IF status' = "Running" THEN <<Visited(state', stdout)>> ELSE trace
    /\ UNCHANGED <<src, line, regs0, lv, res, enc, image, dec>>
    /\ UNCHANGED <<build, mid, stdout, emitted, line_count, brun>>

\* the loop without its state.ip += 1
ip_next_stay(ip_, build_) == [ok |-> TRUE, val |-> ip_]

\* the pointer after state.ip += 1 (u32)
ip_next(ip_, build_) ==
    IF ip_ = -1 THEN [ok |-> build_ = "release", val |-> 0]
    ELSE [ok |-> TRUE, val |-> Add32(ip_, 1).val]

\* one iteration of the interpreter loop: the instruction at ip is executed,
\* an Err ends the run, otherwise ip and line_count are incremented
Step ==
    /\ pc = "run"
    /\ status = "Running"
    /\ index_some(ftoks, state.ip)
    /\ line_count < StepCap
    /\ LET r == execute(state, ftoks[state.ip + 1], build)
           n == ip_next(r.state.ip, build)
       IN
        /\ pre' = state
        /\ mid' = r.state.ip
        /\ stdout' = stdout \o r.printed
        /\ emitted' = r.printed
        /\ CASE r.kind = "panic" ->
                  /\ status' = "Aborted"
                  /\ UNCHANGED <<state, fail, line_count>>
             [] r.kind = "Err" ->
                  /\ status' = "Failed"
                  /\ fail' = [pos |-> r.state.ip, err |-> r.err]
                  /\ state' = r.state
                  /\ UNCHANGED line_count
             [] r.kind = "Ok" /\ ~n.ok ->
                  /\ status' = "Aborted"
                  /\ state' = r.state
                  /\ UNCHANGED <<fail, line_count>>
             [] OTHER ->
                  /\ status' = "Running"
                  /\ state' = [r.state EXCEPT !.ip = n.val]
                  /\ line_count' = line_count + 1
                  /\ UNCHANGED fail
    /\ trace' = IF status' = "Running" THEN Append(trace, Visited(state', stdout')) ELSE trace
    /\ UNCHANGED cvars
    /\ UNCHANGED <<build, brun>>

\* the loop ends when no instruction is at ip: run_file returns Ok(line_count)
Halt ==
    /\ pc = "run"
    /\ status = "Running"
    /\ ~index_some(ftoks, state.ip)
    /\ status' = "Halted"
    /\ pc' = "done"
    /\ UNCHANGED <<src, regs, ftoks, line, regs0, lv, res, enc, image, dec>>
    /\ UNCHANGED <<build, state, pre, mid, stdout, emitted, fail, line_count, trace, brun>>

NextRun == LoadFile \/ Step \/ Halt

SpecRun == InitRun /\ [][NextRun]_vars

\* str::trim().is_empty()
trim_is_empty(l) == \A i \in 1..Len(l) : IsWhitespace(l[i])

InitRepl ==
    /\ src = <<>>
    /\ regs = <<>>
    /\ ftoks = <<>>
    /\ line = <<>>
    /\ regs0 = <<>>
    /\ lv = OkUnit
    /\ res = TokNone
    /\ enc = BytesNone
    /\ image = <<>>
    /\ dec = DecNone
    /\ pc = "repl"
    /\ build \in Builds
    /\ state = new_state(0)
    /\ pre = new_state(0)
    /\ mid = 0
    /\ stdout = <<>>
    /\ emitted = <<>>
    /\ status = "Running"
    /\ fail = NoFail
    /\ line_count = 0
    /\ trace = <<>>
    /\ brun = NoRun

\* the REPL iteration goes back to the prompt without executing anything
ReplContinue ==
    /\ pre' = state
    /\ mid' = state.ip
    /\ emitted' = <<>>
    /\ fail' = NoFail
    /\ UNCHANGED <<state, stdout>>

\* the REPL iteration executes the tokens of the line: a def line first
\* pushes a zero onto the store, and the pointer is incremented on Ok
ReplExecute(l, toks) ==
    LET is_def == to_lowercase(tokenize_line(l)[1]) = kwDEF
        st == IF is_def THEN [state EXCEPT !.regs = Append(state.regs, 0)] ELSE state
        r == execute(st, toks, build)
        n == ip_next(r.state.ip, build)
    IN  /\ pre' = st
        /\ mid' = r.state.ip
        /\ emitted' = r.printed
        /\ stdout' = stdout \o r.printed
        /\ CASE r.kind = "panic" ->
                  /\ status' = "Aborted"
                  /\ state' = st
                  /\ fail' = NoFail
             [] r.kind = "Err" ->
                  /\ status' = "Running"
                  /\ state' = r.state
                  /\ fail' = [pos |-> r.state.ip, err |-> r.err]
             [] r.kind = "Ok" /\ ~n.ok ->
                  /\ status' = "Aborted"
                  /\ state' = r.state
                  /\ fail' = NoFail
             [] OTHER ->
                  /\ status' = "Running"
                  /\ state' = [r.state EXCEPT !.ip = n.val]
                  /\ fail' = NoFail

\* one iteration of the REPL loop on the line typed
ReplLine ==
    /\ pc = "repl"
    /\ status = "Running"
    /\ Len(src) < MaxLines
    /\ \E l \in ReplInputs :
        /\ src' = Append(src, l)
        /\ line' = l
        /\ regs0' = regs
        /\ IF trim_is_empty(l)
           THEN /\ ReplContinue
                /\ status' = status
                /\ res' = TokNone /\ lv' = OkUnit /\ regs' = regs
           ELSE IF starts_with(l, <<":">>)
           THEN /\ ReplContinue
                /\ status' = IF tokenize_line(l)[1] = cmdExit THEN "Exited" ELSE status
                /\ res' = TokNone /\ lv' = OkUnit /\ regs' = regs
           ELSE LET r == to_tokens(l, regs) IN
                /\ res' = r.res /\ lv' = r.lv /\ regs' = r.regs
                /\ IF r.res.kind # "Some" \/ to_lowercase(tokenize_line(l)[1]) = kwJNZ
                   THEN ReplContinue /\ status' = status
                   ELSE ReplExecute(l, r.res.toks)
    /\ UNCHANGED <<ftoks, enc, image, dec, pc, build, line_count, trace, brun>>

NextRepl == ReplLine

SpecRepl == InitRepl /\ [][NextRepl]_vars

\* run_bytecode, the interpreter loop: as in run_file, with the count
\* incremented before the pointer
RECURSIVE bytecode_loop(_, _, _, _, _, _)
bytecode_loop(st, tokens, build_, linecount, out, tr) ==
    IF ~index_some(tokens, st.ip) THEN Outcome("Halted", st, linecount, NoFail, tr)
    ELSE IF linecount >= StepCap THEN Outcome("Running", st, linecount, NoFail, tr)
    ELSE LET r == execute(st, tokens[st.ip + 1], build_)
             n == ip_next(r.state.ip, build_)
         IN  IF r.kind = "panic" THEN Outcome("Aborted", st, linecount, NoFail, tr)
             ELSE IF r.kind = "Err"
             THEN Outcome("Failed", r.state, linecount,
                          [pos |-> r.state.ip, err |-> r.err], tr)
             ELSE IF ~n.ok THEN Outcome("Aborted", r.state, linecount, NoFail, tr)
             ELSE LET st1 == [r.state EXCEPT !.ip = n.val] IN
                  bytecode_loop(st1, tokens, build_, linecount + 1, out \o r.printed,
                                Append(tr, Visited(st1, out \o r.printed)))

\* run_bytecode: the image is decoded, the state is created with the
\* register count of the header, and the loop is run
run_bytecode(bytes, build_) ==
    LET d == from_bytecode(bytes) IN
    IF d.kind = "panic" THEN Outcome("Aborted", new_state(0), 0, NoFail, <<>>)
    ELSE IF d.kind = "Err"
    THEN Outcome("Rejected", new_state(0), 0, [pos |-> 0, err |-> d.err], <<>>)
    ELSE LET st == new_state(d.reg_count) IN
         bytecode_loop(st, d.toks, build_, 0, <<>>, <<Visited(st, <<>>)>>)

\* convert_to_bytecode on the lines of the file that run_file is given
ConvertFile ==
    /\ enc = BytesNone
    /\ enc' = to_bytecode(src)
    /\ image' = enc'.bytes
    /\ UNCHANGED <<src, regs, ftoks, line, regs0, lv, res, dec, pc>>
    /\ UNCHANGED rvars

\* run_bytecode on the image written
RunBytecode ==
    /\ enc.kind = "Ok"
    /\ brun = NoRun
    /\ dec' = from_bytecode(image)
    /\ brun' = run_bytecode(image, build)
    /\ UNCHANGED <<src, regs, ftoks, line, regs0, lv, res, enc, image, pc>>
    /\ UNCHANGED <<build, state, pre, mid, stdout, emitted, status, fail, line_count, trace>>

NextBoth == LoadFile \/ Step \/ Halt \/ ConvertFile \/ RunBytecode

SpecBoth == InitRun /\ [][NextBoth]_vars

----------------------------------------------------------------------------
(* Properties *)

\* the words of the last line submitted
Words == tokenize_line(line)

\* a call of to_tokens has returned
Called == src # <<>>

\* the last line is executable: not empty, and its first word starts with
\* none of the comment markers # / : ; " '
Executable ==
    /\ Words # <<>>
    /\ Words[1][1] \notin {"#", "/", ":", ";", "\"", "'"}

\* the last line is a valid executable line with keyword k (0-based)
ValidLineOf(k) ==
    /\ Called
    /\ Executable
    /\ lv.kind = "Ok"
    /\ to_lowercase(Words[1]) = KEYWORD_INDEX[k + 1]

RECURSIVE Flatten(_)
Flatten(ss) == IF ss = <<>> THEN <<>> ELSE Head(ss) \o Flatten(Tail(ss))

\* the image produced by to_bytecode is the one decoded
DecodedOwnImage == pc = "decoded" /\ enc.kind = "Ok" /\ image = enc.bytes

\* C1: decoding the image of a successfully compiled program returns the
\* length of the register table and exactly the instructions to_tokens
\* produced for the executable lines.
C1_RoundTrip ==
    DecodedOwnImage => dec = DecOk(Len(regs), ftoks)

\* four bytes read as a big-endian two's-complement number
SignedBE(b) ==
    (IF b[1] >= 128 THEN b[1] - 256 ELSE b[1]) * 16777216
        + b[2] * 65536 + b[3] * 256 + b[4]

TagOf(tok) ==
    IF tok.type_ = "KEYWORD" THEN 0 ELSE IF tok.type_ = "REGISTER" THEN 1 ELSE 2

\* C2: the image of a program with T tokens has 32 + 5*T bytes: the length
\* of the register table big-endian in bytes 0..3, zeros in bytes 4..31, and
\* the k-th token as its tag byte followed by its value as a big-endian
\* two's-complement 32-bit number.
C2_WireFormat ==
    enc.kind = "Ok" =>
        LET all == Flatten(ftoks)
            b == enc.bytes
        IN  /\ Len(b) = 32 + 5 * Len(all)
            /\ \A i \in 1..Len(b) : b[i] \in 0..255
            /\ b[1] = 0
            /\ b[2] * 65536 + b[3] * 256 + b[4] = Len(regs)
            /\ \A i \in 5..32 : b[i] = 0
            /\ \A k \in 0..(Len(all) - 1) :
                  /\ b[32 + 5 * k + 1] = TagOf(all[k + 1])
                  /\ SignedBE(SubSeq(b, 32 + 5 * k + 2, 32 + 5 * k + 5))
                        = all[k + 1].val

\* an image of two instructions, one with a negative literal
C2_Witness ==
    /\ enc.kind = "Ok"
    /\ Len(ftoks) >= 2
    /\ Len(regs) >= 1
    /\ \E i \in 1..Len(ftoks) : \E j \in 1..Len(ftoks[i]) :
          ftoks[i][j].type_ = "LITERAL" /\ ftoks[i][j].val < -1

\* C3: decoding at least 32 bytes whose length minus 32 is no multiple of 5
\* returns an Err.
C3_TruncatedRecord ==
    (pc = "decoded" /\ Len(image) >= 32 /\ (Len(image) - 32) % 5 # 0)
        => dec.kind = "Err"

\* C4: decoding fewer than 32 bytes returns an Err.
C4_CorruptHeader ==
    (pc = "decoded" /\ Len(image) < 32) => dec.kind = "Err"

\* C5: decoding a well-sized image whose first record is tagged Register or
\* Literal returns an Err, and decoding an image with an empty body returns
\* the empty program.
C5_OrphanToken ==
    (pc = "decoded" /\ Len(image) >= 32 /\ (Len(image) - 32) % 5 = 0) =>
        /\ (Len(image) > 32 /\ image[33] \in {1, 2}) => dec.kind = "Err"
        /\ Len(image) = 32 => (dec.kind = "Ok" /\ dec.toks = <<>>)

\* the documented parameter rule of each keyword
RuleOf(kw) ==
    CASE kw = <<"d","e","f">> -> <<"R","B">>
      [] kw = <<"i","n","c">> -> <<"R">>
      [] kw = <<"i","n","c","t">> -> <<"R","B">>
      [] kw = <<"d","e","c">> -> <<"R">>
      [] kw = <<"d","e","c","t">> -> <<"R","B">>
      [] kw = <<"m","u","l">> -> <<"R","B">>
      [] kw = <<"d","i","v">> -> <<"R","B">>
      [] kw = <<"c","p","y">> -> <<"B","R">>
      [] kw = <<"j","n","z">> -> <<"B","L">>
      [] kw = <<"o","u","t">> -> <<"B">>
      [] kw = <<"o","u","t","n">> -> <<"B">>
      [] kw = <<"o","u","t","c">> -> <<"B">>
      [] OTHER -> <<"?">>

KnownKeyword == RuleOf(to_lowercase(Words[1])) # <<"?">>
ArityOk == Len(Words) - 1 = Len(RuleOf(to_lowercase(Words[1])))
KindsOk ==
    \A i \in 1..(Len(Words) - 1) :
        LET rule == RuleOf(to_lowercase(Words[1]))[i]
            lit == is_literal(Words[i + 1]).ok
        IN  (rule = "R" => ~lit) /\ (rule = "L" => lit)

\* C6: for an executable line, line_valid returns Ok exactly when the
\* keyword is known, the arity is the rule's length and every parameter
\* complies with its rule; the error is that of the first failing check.
C6_LineValid ==
    (Called /\ Executable) =>
        /\ lv.kind = "Ok" <=> (KnownKeyword /\ ArityOk /\ KindsOk)
        /\ ~KnownKeyword => lv.err = "UnknownKeyword"
        /\ (KnownKeyword /\ ~ArityOk) => lv.err = "ArityMismatch"
        /\ (KnownKeyword /\ ArityOk /\ ~KindsOk) => lv.err = "ParameterKindMismatch"

\* a jnz line of the right arity whose offset is not a literal
C6_Witness ==
    /\ Called
    /\ Executable
    /\ to_lowercase(Words[1]) = <<"j","n","z">>
    /\ Len(Words) = 3
    /\ ~is_literal(Words[3]).ok
    /\ lv.err = "ParameterKindMismatch"

\* C7: for a line that worth_execution reports non-executable, line_valid
\* returns Ok and to_tokens returns Ok(None) leaving the table unchanged.
C7_CommentsAgree ==
    (Called /\ ~Executable) =>
        /\ lv.kind = "Ok"
        /\ res = TokNone
        /\ regs = regs0

\* C8: a def of a name already in the table fails and leaves the table
\* unchanged, and the table never holds a name twice.
C8_NoDuplicateRegister ==
    /\ (ValidLineOf(0) /\ Words[2] \in Range(regs0)) =>
           (res.kind = "Err" /\ regs = regs0)
    /\ \A i, j \in 1..Len(regs) : regs[i] = regs[j] => i = j

\* the table a line's parameters are resolved against: the table before the
\* call, with the line's own def name registered
TableSeen == IF to_lowercase(Words[1]) = <<"d","e","f">>
             THEN Append(regs0, Words[2]) ELSE regs0

UnknownParam(i) ==
    ~is_literal(Words[i]).ok /\ Words[i] \notin Range(TableSeen)

\* C9: resolving a valid executable line fails with UnknownRegister and no
\* tokens when a parameter is neither an integer nor a name of the table;
\* otherwise every name resolves to a Register token carrying its index in
\* the table and every integer to a Literal token carrying its value.
C9_UnknownRegister ==
    (Called /\ Executable /\ lv.kind = "Ok") =>
        IF \E i \in 2..Len(Words) : UnknownParam(i)
        THEN res.kind = "Err" /\ res.err = "UnknownRegister" /\ res.toks = <<>>
        ELSE /\ res.kind = "Some"
             /\ Len(res.toks) = Len(Words)
             /\ \A i \in 2..Len(Words) :
                   IF is_literal(Words[i]).ok
                   THEN res.toks[i] = Token("LITERAL", is_literal(Words[i]).val)
                   ELSE /\ res.toks[i].type_ = "REGISTER"
                        /\ res.toks[i].val \in 0..(Len(TableSeen) - 1)
                        /\ TableSeen[res.toks[i].val + 1] = Words[i]

\* a def line whose value names a register that is not in the table
C9_Witness ==
    /\ ValidLineOf(0)
    /\ UnknownParam(3)
    /\ res.err = "UnknownRegister"

\* C10: a def line raises InvalidRegisterName, and registers nothing,
\* exactly when the declared name breaks one of the three naming rules.
C10_InvalidRegisterName ==
    ValidLineOf(0) =>
        ((res.kind = "Err" /\ res.err = "InvalidRegisterName" /\ regs = regs0)
            <=> regname_valid(Words[2]).kind # "Ok")

\* C11: whenever to_tokens returns Err for a line, the register table is
\* exactly what it was before the call.
C11_ErrLeavesTable ==
    (Called /\ res.kind = "Err") => regs = regs0

\* an instruction has been executed by the interpreter loop: pre is the state
\* it was executed in
Stepped ==
    \/ status \in {"Aborted", "Failed"}
    \/ (status \in {"Running", "Halted"} /\ line_count > 0)

\* the instruction executed last, its keyword and its position
LastToks == ftoks[pre.ip + 1]
LastKw == KEYWORD_INDEX[LastToks[1].val + 1]
Executed(kw) == Stepped /\ LastKw = kw

\* the value of an operand of the instruction executed last, in the state
\* before it
ValueOf(tok) == IF tok.type_ = "LITERAL" THEN tok.val ELSE pre.regs[tok.val + 1]
V1 == ValueOf(LastToks[2])
V2 == ValueOf(LastToks[3])

\* the run went on after the last instruction
WentOn == status \in {"Running", "Halted"}

\* C12: a jnz executed at p with V1 # 0 and p + V2 >= 0 leaves the pointer
\* at p + V2, without the run aborting and without the pointer wrapping in
\* between; with V1 = 0 the pointer becomes p + 1.
C12_JumpTarget ==
    Executed(kwJNZ) =>
        IF V1 = 0
        THEN WentOn /\ state.ip = pre.ip + 1
        ELSE (V2 >= -pre.ip /\ V2 < I32_MAX) =>
                (WentOn /\ mid >= 0 /\ mid = pre.ip + V2 - 1 /\ state.ip = pre.ip + V2)

\* C13: a jnz taken at p with p + V2 < 0 fails with an Err (PointerUnderflow)
\* reported at p, and the pointer is never given a wrapped value.
C13_PointerUnderflow ==
    (Executed(kwJNZ) /\ V1 # 0 /\ V2 < -pre.ip) =>
        (status = "Failed" /\ fail.pos = pre.ip /\ mid = pre.ip /\ state.ip = pre.ip)

\* the output of the countdown from n: n-1, ..., 0, each followed by a newline
RECURSIVE CountdownOutput(_)
CountdownOutput(n) ==
    IF n = 0 THEN <<>> ELSE <<48 + (n - 1), 10>> \o CountdownOutput(n - 1)

IsPrefix(a, b) == Len(a) <= Len(b) /\ a = SubSeq(b, 1, Len(a))

\* C14: the countdown program from N never fails or aborts; what it has
\* printed is always a prefix of N-1, ..., 0 with a newline after each; every
\* taken jump returns to index 1; it executes at most 1 + 3N instructions,
\* always has a next step until then, and then halts with ctr = 0, the whole
\* output printed and exactly 1 + 3N instructions counted.
C14_Countdown ==
    \A n \in 1..MaxCount :
        (src = Countdown(n) /\ pc \in {"run", "done"}) =>
            /\ status \in {"Running", "Halted"}
            /\ IsPrefix(stdout, CountdownOutput(n))
            /\ line_count <= 1 + 3 * n
            /\ (Executed(kwJNZ) /\ V1 # 0) => (pre.ip = 3 /\ state.ip = 1)
            /\ (status = "Running" /\ line_count < 1 + 3 * n) =>
                    index_some(ftoks, state.ip)
            /\ (status = "Running" /\ line_count = 1 + 3 * n) =>
                    ~index_some(ftoks, state.ip)
            /\ status = "Halted" =>
                    /\ stdout = CountdownOutput(n)
                    /\ state.regs = <<0>>
                    /\ line_count = 1 + 3 * n

C14_Witness ==
    /\ src = Countdown(MaxCount)
    /\ status = "Halted"
    /\ line_count = 1 + 3 * MaxCount
    /\ stdout = CountdownOutput(MaxCount)

\* the register a div, def, inc, ... instruction writes: its first operand
RegOf(toks) == toks[2].val + 1

\* C16: div R V with V = 0 fails with an Err (DivisionError) reported at the
\* position of the instruction and leaves the store as it was; the process
\* does not crash.
C16_DivisionByZero ==
    (Executed(kwDIV) /\ V2 = 0) =>
        (status = "Failed" /\ fail.pos = pre.ip /\ state = pre)

\* C17: div R V with V # 0 leaves store[R] equal to the floor of x / V, the
\* greatest integer not above the exact quotient, for either sign (the one
\* quotient that is no i32, -2^31 / -1, set aside).
C17_DivFloors ==
    (Executed(kwDIV) /\ V2 # 0 /\ ~(V1 = I32_MIN /\ V2 = -1)) =>
        /\ WentOn
        /\ LET x == V1
               q == state.regs[RegOf(LastToks)]
           IN  IF V2 > 0
               THEN q * V2 <= x /\ x - q * V2 < V2
               ELSE q * V2 >= x /\ q * V2 - x < -V2

\* C18: outc V returns an Err (InvalidCodepoint) exactly when V is negative,
\* a surrogate (0xD800..0xDFFF) or above 0x10FFFF, and then prints nothing;
\* for every other V it prints exactly the one character of code point V; in
\* both cases the handler leaves the store and the pointer as they were.
C18_Outc ==
    Executed(kwOUTC) =>
        /\ state.regs = pre.regs
        /\ mid = pre.ip
        /\ IF V1 < 0 \/ (V1 >= 55296 /\ V1 <= 57343) \/ V1 > 1114111
           THEN status = "Failed" /\ fail.pos = pre.ip /\ emitted = <<>>
                /\ state.ip = pre.ip
           ELSE WentOn /\ emitted = <<V1>>

C18_Witness ==
    Executed(kwOUTC) /\ V1 = 57343 /\ status = "Failed" /\ line_count = 1

\* the bound below the square root of 2^31
SqrtBound == 46340
Small(v) == v >= -SqrtBound /\ v <= SqrtBound

\* x + v is an i32
SumFits(x, v) == IF v >= 0 THEN x <= I32_MAX - v ELSE x >= I32_MIN - v

\* x - v is an i32
DifferenceFits(x, v) == IF v >= 0 THEN x >= I32_MIN + v ELSE x <= I32_MAX + v

\* x * v is an i32, both factors being below the square root of 2^31
ProductFits(x, v) == Small(x) /\ Small(v)

\* the handler of the last instruction set register r (1-based) to v and
\* left every other register, the length of the store and the pointer as
\* they were, and printed nothing
OnlySet(r, v) ==
    /\ WentOn
    /\ state.regs = [pre.regs EXCEPT ![r] = v]
    /\ mid = pre.ip
    /\ emitted = <<>>

\* the register written by the last instruction and its value before
StoreR == pre.regs[RegOf(LastToks)]

\* C19: without overflow, def R V and cpy V R set store[R] to V, inc and dec
\* change it by +1 and -1, inct and dect by +V and -V, mul multiplies it by
\* V, V being the literal or the value of the named register before the
\* write; nothing else of the store and not the pointer changes.  The file
\* `def a 0; def b 0; inct b a; inc a; outn a` runs straight to a halt with
\* a = 1, b = 0 and the output "1\n"; `def a 5; mul a -2; outn a` to a halt
\* with the output "-10\n".
C19_HandlerEffects ==
    /\ Executed(kwDEF) => OnlySet(RegOf(LastToks), V2)
    /\ Executed(kwCPY) => OnlySet(LastToks[3].val + 1, V1)
    /\ (Executed(kwINC) /\ SumFits(StoreR, 1)) => OnlySet(RegOf(LastToks), StoreR + 1)
    /\ (Executed(kwDEC) /\ DifferenceFits(StoreR, 1)) =>
            OnlySet(RegOf(LastToks), StoreR - 1)
    /\ (Executed(kwINCT) /\ SumFits(StoreR, V2)) =>
            OnlySet(RegOf(LastToks), StoreR + V2)
    /\ (Executed(kwDECT) /\ DifferenceFits(StoreR, V2)) =>
            OnlySet(RegOf(LastToks), StoreR - V2)
    /\ (Executed(kwMUL) /\ ProductFits(StoreR, V2)) =>
            OnlySet(RegOf(LastToks), StoreR * V2)
    /\ (src \in {IncFile, MulFile} /\ pc \in {"run", "done"}) =>
            /\ WentOn
            /\ status = "Running" => state.ip = line_count
            /\ status = "Halted" => line_count = Len(src)
    /\ (src = IncFile /\ status = "Halted") =>
            (state.regs = <<1, 0>> /\ stdout = <<49, 10>>)
    /\ (src = MulFile /\ status = "Halted") =>
            (state.regs = <<-10>> /\ stdout = <<45, 49, 48, 10>>)

\* dect with a register as its own operand, read before it is written
C19_Witness ==
    /\ Executed(kwDECT)
    /\ LastToks[3] = Token("REGISTER", 0)
    /\ pre.regs = <<7, 7>>
    /\ state.regs = <<0, 7>>

\* what holds of every state of a run
StepRuleState ==
    /\ (pc = "run" /\ status = "Running" /\ line_count = 0) =>
            state = [regs |-> [i \in 1..Len(regs) |-> 0], ip |-> 0]
    /\ (Stepped /\ LastKw # kwJNZ /\ WentOn) =>
            (mid = pre.ip /\ state.ip = pre.ip + 1)
    /\ status = "Halted" => (state.ip >= Len(ftoks) \/ state.ip < 0)
    /\ status = "Failed" => (fail.pos = pre.ip /\ state.ip = pre.ip)

\* what holds of every step of a run
StepRuleAction ==
    /\ status \notin {"Halted", "Failed"}
    /\ (status = "Running" /\ (state.ip >= Len(ftoks) \/ state.ip < 0)) =>
            /\ status' = "Halted"
            /\ UNCHANGED <<state, stdout, fail, line_count>>
    /\ (status = "Running" /\ state.ip >= 0 /\ state.ip < Len(ftoks)) =>
            /\ pre' = state
            /\ status' \in {"Running", "Failed", "Aborted"}
            /\ status' = "Running" => line_count' = line_count + 1
            /\ status' = "Failed" => line_count' = line_count

\* C20: a run starts Running at pointer 0 with one zero per register; a
\* step with the pointer at or past the end of the program halts the run
\* and changes nothing else; any other step executes the instruction at the
\* pointer, and when an instruction other than jnz succeeds the pointer is
\* its position plus one; no step is taken from Halted or Failed.
C20_StepRule == [](StepRuleState) /\ [][StepRuleAction]_vars

\* a forward jnz past the end of the program, and the halt after it
C20_Witness ==
    /\ status = "Halted"
    /\ Executed(kwJNZ)
    /\ V1 # 0
    /\ state.ip > Len(ftoks)

\* the REPL executed the tokens of the last line
ReplExecuted ==
    /\ pc = "repl"
    /\ src # <<>>
    /\ ~trim_is_empty(line)
    /\ ~starts_with(line, <<":">>)
    /\ res.kind = "Some"
    /\ to_lowercase(Words[1]) # kwJNZ

\* a Register token of the instruction indexes past the store it ran on
OutOfStore(tok) == tok.type_ = "REGISTER" /\ tok.val >= Len(pre.regs)

\* C15: an instruction with a Register token whose index is not below the
\* length of the store returns an Err when executed, whether the register is
\* read or written: the process does not abort and the instruction is not
\* taken as done.
C15_RegisterOutOfRange ==
    (ReplExecuted /\ \E i \in 2..Len(res.toks) : OutOfStore(res.toks[i])) =>
        (status = "Running" /\ fail.err # "" /\ fail.pos = pre.ip
            /\ state = pre /\ emitted = <<>>)

\* C21: after any sequence of REPL lines the store has one slot per entry of
\* the register table, so every Register token of the last line addresses a
\* slot of the store.
C21_StoreFollowsTable ==
    pc = "repl" =>
        /\ Len(state.regs) = Len(regs)
        /\ res.kind = "Some" =>
              \A i \in 1..Len(res.toks) :
                  res.toks[i].type_ = "REGISTER" =>
                      (res.toks[i].val >= 0 /\ res.toks[i].val < Len(state.regs))

\* the 5-byte records of the body of the image, and the token each stands for
BodyRecords ==
    [i \in 1..((Len(image) - 32) \div 5) |-> SubSeq(image, 32 + 5 * (i - 1) + 1, 32 + 5 * i)]
RecordToken(b) ==
    [type_ |-> IF b[1] = 0 THEN "KEYWORD" ELSE IF b[1] = 1 THEN "REGISTER" ELSE "LITERAL",
     val |-> SignedBE(SubSeq(b, 2, 5))]

\* C22: when an image decodes successfully, every instruction starts with a
\* Keyword token and holds no other, there are as many instructions as
\* Keyword records, the instructions put end to end are the records in
\* order, and the register count is the big-endian value of bytes 0..3,
\* whatever the 28 reserved bytes hold.  Token::from_bytearray being
\* unimplemented!(), the only images that decode successfully are those of
\* exactly 32 bytes, on which all but the last conjunct say nothing.
C22_DecoderPartition ==
    (pc = "decoded" /\ dec.kind = "Ok") =>
        /\ \A k \in 1..Len(dec.toks) :
              /\ dec.toks[k] # <<>>
              /\ dec.toks[k][1].type_ = "KEYWORD"
              /\ \A j \in 2..Len(dec.toks[k]) : dec.toks[k][j].type_ # "KEYWORD"
        /\ Len(dec.toks) = Cardinality({i \in 1..Len(BodyRecords) : BodyRecords[i][1] = 0})
        /\ Flatten(dec.toks) = [i \in 1..Len(BodyRecords) |-> RecordToken(BodyRecords[i])]
        /\ dec.reg_count = image[1] * 16777216 + image[2] * 65536 + image[3] * 256 + image[4]

\* the opcode table: the value of the Keyword token of each keyword
OpcodeOf(kw) ==
    CASE kw = <<"d","e","f">> -> 0
      [] kw = <<"i","n","c">> -> 1
      [] kw = <<"i","n","c","t">> -> 2
      [] kw = <<"d","e","c">> -> 3
      [] kw = <<"d","e","c","t">> -> 4
      [] kw = <<"m","u","l">> -> 5
      [] kw = <<"d","i","v">> -> 6
      [] kw = <<"c","p","y">> -> 7
      [] kw = <<"j","n","z">> -> 8
      [] kw = <<"o","u","t">> -> 9
      [] kw = <<"o","u","t","n">> -> 10
      [] kw = <<"o","u","t","c">> -> 11
      [] OTHER -> -1

\* C23: an instruction returned by to_tokens starts with a Keyword token
\* carrying the opcode of the keyword, whatever the letter case of the word,
\* followed by one token per letter of the keyword's rule, none of them a
\* Keyword: a Register at every R, a Literal at every L, and every Register
\* value a position of the table.
C23_TokenStream ==
    (Called /\ res.kind = "Some") =>
        LET kw == to_lowercase(Words[1])
            rule == RuleOf(kw)
            toks == res.toks
        IN  /\ OpcodeOf(kw) >= 0
            /\ toks[1] = [type_ |-> "KEYWORD", val |-> OpcodeOf(kw)]
            /\ Len(toks) = 1 + Len(rule)
            /\ \A i \in 1..Len(rule) :
                  /\ toks[i + 1].type_ \in {"REGISTER", "LITERAL"}
                  /\ rule[i] = "R" => toks[i + 1].type_ = "REGISTER"
                  /\ rule[i] = "L" => toks[i + 1].type_ = "LITERAL"
                  /\ toks[i + 1].type_ = "REGISTER" =>
                        (toks[i + 1].val >= 0 /\ toks[i + 1].val < Len(regs))

\* a jnz written in mixed case, its condition the second entry of the table
C23_Witness ==
    /\ Called
    /\ Words[1] = <<"J","n","Z">>
    /\ res.kind = "Some"
    /\ res.toks = << [type_ |-> "KEYWORD", val |-> 8], [type_ |-> "REGISTER", val |-> 1],
                     [type_ |-> "LITERAL", val |-> -2] >>

\* the 0-based position of the first entry of the table that is name
FirstDeclared(table, name) ==
    CHOOSE k \in 0..(Len(table) - 1) :
        table[k + 1] = name /\ \A j \in 1..k : table[j] # name

\* every Register token of the last line carries the position of the first
\* entry of the table for the name written, so two names never share one
IndexIsFirstDeclaration ==
    (Called /\ res.kind = "Some") =>
        \A i \in 2..Len(res.toks) :
            res.toks[i].type_ = "REGISTER" =>
                /\ \E k \in 1..Len(regs) : regs[k] = Words[i]
                /\ res.toks[i].val = FirstDeclared(regs, Words[i])
                /\ \A j \in 2..Len(res.toks) :
                      (res.toks[j].type_ = "REGISTER" /\ Words[j] # Words[i]) =>
                          res.toks[j].val # res.toks[i].val

\* a call only appends to the table, and the position of the first entry of
\* every name already in it stays what it was
TableOnlyAppended ==
    /\ IsPrefix(regs, regs')
    /\ \A k \in 1..Len(regs) :
          FirstDeclared(regs', regs[k]) = FirstDeclared(regs, regs[k])

\* C24: over any sequence of to_tokens calls on one table, a Register token
\* carries the position of the first declaration of its name, which never
\* changes; the table is only appended to; distinct names never resolve to
\* the same index.
C24_StableIndices == [](IndexIsFirstDeclaration) /\ [][TableOnlyAppended]_vars

\* the third line uses b, declared second, after a was declared
C24_Witness ==
    /\ pc = "compile"
    /\ regs = <<nameA, nameB>>
    /\ Len(src) = 3
    /\ res.kind = "Some"
    /\ res.toks = << [type_ |-> "KEYWORD", val |-> 7], [type_ |-> "REGISTER", val |-> 0],
                     [type_ |-> "REGISTER", val |-> 1] >>

\* the run has failed: the state is the one the failing instruction was run
\* in, nothing was printed by it, and the position reported is its index
FailureState ==
    status = "Failed" =>
        /\ state = pre
        /\ emitted = <<>>
        /\ fail.err # ""
        /\ fail.pos = pre.ip
        /\ fail.pos >= 0 /\ fail.pos < Len(ftoks)

\* C25: when execute returns Err, the store (every slot and its length) and
\* the pointer are what they were before the step, the position reported is
\* the index of the failing instruction, and the run loop takes no further
\* step.
C25_AtomicFailure == [](FailureState) /\ [][status # "Failed"]_vars

\* outc fails on a surrogate held in a register that def has just written
C25_Witness ==
    /\ status = "Failed"
    /\ fail.pos = 1
    /\ state = [regs |-> <<55296>>, ip |-> 1]
    /\ line_count = 1

\* the line is a jnz
JnzLine(l) == to_lowercase(tokenize_line(l)[1]) = kwJNZ

\* every jnz of the file has a literal offset of at least 1, and the file
\* has no jnz at all
ForwardFile ==
    \A i \in 1..Len(src) :
        JnzLine(src[i]) =>
            LET offset == is_literal(tokenize_line(src[i])[3])
            IN  offset.ok /\ offset.val >= 1
JnzFreeFile == \A i \in 1..Len(src) : ~JnzLine(src[i])

\* the order of two u32 pointers held as two's-complement readings
PointerAbove(a, b) == IF (a < 0) = (b < 0) THEN a > b ELSE a < 0

\* C26: a run of a file whose jnz all have a literal offset >= 1 ends Halted
\* or Failed: it never aborts, the pointer grows with every instruction, a
\* step can be taken as long as an instruction is at the pointer, and when
\* it halts the count returned is the number of instructions executed, the
\* length of the program when it has no jnz.
C26_Termination ==
    (pc \in {"run", "done"} /\ ForwardFile) =>
        /\ status \in {"Running", "Halted", "Failed"}
        /\ (Stepped /\ WentOn) =>
              (PointerAbove(state.ip, pre.ip) /\ PointerAbove(state.ip, line_count - 1))
        /\ (status = "Running" /\ index_some(ftoks, state.ip)) => line_count < StepCap
        /\ (status = "Halted" /\ JnzFreeFile) => line_count = Len(ftoks)

\* the file run and the bytecode run have both ended (or reached the cap)
BothRan ==
    /\ pc \in {"run", "done"}
    /\ enc.kind = "Ok"
    /\ brun.status # "Idle"
    /\ (status \in {"Halted", "Failed", "Aborted"}
            \/ (status = "Running" /\ line_count = StepCap))

\* C27: for a file that compiles, run_file and run_bytecode on the image of
\* the same lines start with the same store, go through the same states of
\* pointer, store and output, and end alike: the same count, or a failure at
\* the same position.
C27_RunsAgree ==
    BothRan =>
        /\ brun.status = status
        /\ brun.trace = trace
        /\ brun.count = line_count
        /\ brun.fail.pos = fail.pos

\* C28: a def line whose value operand is the name it declares, that name
\* not being in the table before the call, fails with UnknownRegister, so
\* that no def instruction reads the slot it creates.
C28_UseBeforeDeclaration ==
    (/\ Called /\ Executable /\ lv.kind = "Ok"
     /\ to_lowercase(Words[1]) = <<"d","e","f">>
     /\ Words[3] = Words[2]
     /\ \A k \in 1..Len(regs0) : regs0[k] # Words[2]) =>
        (res.kind = "Err" /\ res.err = "UnknownRegister")

====
